---------------------------- MODULE Spec2Model ----------------------------
(***************************************************************************)
(* Celebrity voice panel: the Audio Stitcher (scripts/audio_stitcher.py),  *)
(* the Script Generator (scripts/script_generator.py), the Voice Synthesis *)
(* Adapter (scripts/voice_cloner.py) and the two panel drivers (app.py,    *)
(* cli.py).                                                                *)
(*                                                                         *)
(* Conventions.  A Python str is a sequence of characters (one-character   *)
(* strings; a fixed fragment of a template is kept as one element).  A     *)
(* float sample is a fixed-point integer, Unit standing for 1.0.  An       *)
(* Optional value is None or Some(v).  A dict is a function whose DOMAIN   *)
(* is its key set.                                                         *)
(***************************************************************************)
EXTENDS Integers, Sequences, FiniteSets, TLC

\* ------------------------------------------------------------- bounds
\* longest clip list handed to stitch_panel
MaxClips == 2
\* longest sample buffer of an input clip
MaxLen == 2
\* largest pause_between_ms tried
MaxPause == 1
\* largest duration_ms and fade_duration_ms tried on add_silence and crossfade
MaxDuration == 3

\* longest topic string tried (characters)
MaxTopicLen == 2
\* longest character_order tried
MaxOrder == 2
\* longest list of texts handed to generate_batch
MaxBatch == 1

\* fixed-point scale of a sample: Unit is 1.0
Unit == 100

\* sample rates tried (Hz): 2500 / 1000 = 2.5 is exact in floating point, and
\* 1000 / 2500 = 0.4 times a length up to MaxLen + 1 truncates as the exact
\* product does
Rates == {1000, 2500}
\* first samples of the input buffers tried: 0.1 and -2.0 (the latter clips)
Starts == {10, -200}
\* an input buffer: L samples rising by 0.01 from s, so every position differs
Ramp(L, s) == [i \in 1..L |-> s + i - 1]
Buffers == {Ramp(L, s) : L \in 0..MaxLen, s \in Starts}

SeqsUpTo(S, n) == UNION {[1..k -> S] : k \in 0..n}

VARIABLES
    \* AudioStitcher.stitch_panel: self.sample_rate, the arguments, the outcome
    sample_rate, audio_clips, pause_between_ms, normalize, output_path, stitch_ret,
    \* the last call of add_silence or crossfade made from outside: its arguments
    \* and its outcome
    buf_call,
    \* the file system's audio files written by sf.write: path -> [data, samplerate]
    files,
    \* ScriptGenerator: self.characters, self.topic_aliases, the arguments of
    \* generate_panel_script and its outcome
    characters, topic_aliases, topic, character_order, gen_ret,
    \* the VoiceCloner in use (app.py's global cloner: None until first needed),
    \* whose state is its voice_prompts cache
    cloner,
    \* the last call of a VoiceCloner method made from outside: what was asked,
    \* the cache before it, how it ended and what reached the external model
    call,
    \* per voice id, the token derived by the latest load_voice_sample that completed
    last_load,
    \* the file names present under voices/samples
    sample_files,
    \* the directories that exist
    dirs,
    \* the request being answered by app.py, or the run of cli.py: its inputs and
    \* what it did (driver is "none" between requests)
    req

stitchVars ==
    <<sample_rate, audio_clips, pause_between_ms, normalize, output_path, stitch_ret, buf_call>>
genVars == <<characters, topic_aliases, topic, character_order, gen_ret>>
clonerVars == <<cloner, call, last_load>>
appVars == <<sample_files, dirs, req>>
vars == <<stitchVars, files, genVars, clonerVars, appVars>>

\* ------------------------------------------------------------ helpers
RECURSIVE SumSq(_)
SumSq(s) == IF s = <<>> THEN 0 ELSE Head(s) * Head(s) + SumSq(Tail(s))

\* integer square root (floor)
ISqrt(v) == CHOOSE r \in 0..(2 * Unit + 1) : r * r <= v /\ v < (r + 1) * (r + 1)

Abs(x) == IF x < 0 THEN -x ELSE x
Sign(x) == IF x < 0 THEN -1 ELSE 1

\* sf.write(path, data, samplerate): creates or overwrites the file
SfWrite(fs, path, data, sr) ==
    [p \in DOMAIN fs \cup {path} |->
        IF p = path THEN [data |-> data, samplerate |-> sr] ELSE fs[p]]

\* Optional[...]: None, or a value
None == [some |-> FALSE, val |-> <<>>]
Some(v) == [some |-> TRUE, val |-> v]

\* Python truthiness of an Optional[str]: neither None nor ""
Truthy(path) == path.some /\ path.val # <<>>

\* ------------------------------------------------------ AudioStitcher
\* Python's round of the fraction n / d (n >= 0, d > 0): to the nearest
\* integer, a tie to the even one
Round(n, d) ==
    LET q == n \div d
        r == n % d
    IN  IF 2 * r > d \/ (2 * r = d /\ q % 2 = 1) THEN q + 1 ELSE q

\* a plausible slip: the number of samples rounded instead of truncated
AddSilenceRounded(self_sample_rate, duration_ms) ==
    [i \in 1..Round(self_sample_rate * duration_ms, 1000) |-> 0]

\* add_silence: int(self.sample_rate * duration_ms / 1000) zeros; int() truncates
AddSilence(self_sample_rate, duration_ms) ==
    LET num_samples == (self_sample_rate * duration_ms) \div 1000
    IN  [i \in 1..num_samples |-> 0]

\* x * w for numpy arrays of one dimension: element by element when the
\* lengths agree, a single element stretched over the other operand, and
\* ValueError (operands could not be broadcast together) otherwise.  The
\* weights are the fractions num[i] / den.
Broadcast(x, num, den) ==
    LET W(k) == Sign(x[k[1]]) * ((Abs(x[k[1]]) * num[k[2]]) \div den)
    IN  IF Len(x) = Len(num) THEN [raised |-> "", val |-> [i \in 1..Len(x) |-> W(<<i, i>>)]]
        ELSE IF Len(x) = 1 THEN [raised |-> "", val |-> [i \in 1..Len(num) |-> W(<<1, i>>)]]
        ELSE IF Len(num) = 1 THEN [raised |-> "", val |-> [i \in 1..Len(x) |-> W(<<i, 1>>)]]
        ELSE [raised |-> "ValueError", val |-> <<>>]

\* audio[-n:] and audio[:-n] for n >= 0: -0 is 0, so audio[-0:] is the whole
\* buffer and audio[:-0] is empty
LastN(audio, n) == IF n = 0 THEN audio ELSE SubSeq(audio, Len(audio) - n + 1, Len(audio))
ButLastN(audio, n) == IF n = 0 THEN <<>> ELSE SubSeq(audio, 1, Len(audio) - n)

\* crossfade: fade_samples = int(self.sample_rate * fade_duration_ms / 1000);
\* plain concatenation when a buffer is shorter than that; else the last
\* fade_samples of audio1 times linspace(1, 0, fade_samples) plus the first
\* fade_samples of audio2 times linspace(0, 1, fade_samples), between what is
\* left of both.  linspace of one point is its start.
Crossfade(self_sample_rate, audio1, audio2, fade_duration_ms) ==
    LET fade_samples == (self_sample_rate * fade_duration_ms) \div 1000
        den          == IF fade_samples > 1 THEN fade_samples - 1 ELSE 1
        fade_out     == [i \in 1..fade_samples |-> IF fade_samples = 1 THEN 1 ELSE den - (i - 1)]
        fade_in      == [i \in 1..fade_samples |-> IF fade_samples = 1 THEN 0 ELSE i - 1]
        audio1_end   == Broadcast(LastN(audio1, fade_samples), fade_out, den)
        audio2_start == Broadcast(SubSeq(audio2, 1, fade_samples), fade_in, den)
    IN  IF Len(audio1) < fade_samples \/ Len(audio2) < fade_samples
        THEN [raised |-> "", out |-> audio1 \o audio2]
        ELSE IF audio1_end.raised # "" THEN [raised |-> audio1_end.raised, out |-> <<>>]
        ELSE IF audio2_start.raised # "" THEN [raised |-> audio2_start.raised, out |-> <<>>]
        ELSE IF Len(audio1_end.val) # Len(audio2_start.val)
                  /\ Len(audio1_end.val) # 1 /\ Len(audio2_start.val) # 1
        THEN [raised |-> "ValueError", out |-> <<>>]
        ELSE [raised |-> "",
              out |-> ButLastN(audio1, fade_samples)
                      \o [i \in 1..fade_samples |-> audio1_end.val[i] + audio2_start.val[i]]
                      \o SubSeq(audio2, fade_samples + 1, Len(audio2))]

\* normalize_audio with target_db = -20.0: target_rms = 10 ** (-20/20) = 0.1.
\* Fixed point: the mean and the root are truncated to the scale's precision.
\* An empty buffer has rms = nan, nan > 0 is False, and clipping keeps it empty.
NormalizeAudio(audio) ==
    LET n          == Len(audio)
        rms        == IF n = 0 THEN 0 ELSE ISqrt(SumSq(audio) \div n)
        target_rms == Unit \div 10
        Scaled(x)  == IF rms > 0 THEN Sign(x) * ((Abs(x) * target_rms) \div rms) ELSE x
        Clip(x)    == IF x < -Unit THEN -Unit ELSE IF x > Unit THEN Unit ELSE x
    IN  [i \in 1..n |-> Clip(Scaled(audio[i]))]

\* a plausible slip: the length rounded and the nearest index taken
ResampleClipNearest(audio, sr, self_sample_rate) ==
    LET new_length == Round(Len(audio) * self_sample_rate, sr)
        Index(k)   == IF new_length = 1 THEN 0
                      ELSE Round(k * (Len(audio) - 1), new_length - 1)
    IN  [k \in 1..new_length |-> audio[Index(k - 1) + 1]]

\* The resampling branch of stitch_panel: new_length = int(len(audio) * ratio),
\* indices = np.linspace(0, len(audio) - 1, new_length).astype(int): index k of
\* new_length (0-based) is trunc(k * (len - 1) / (new_length - 1)); a single
\* index is the start, 0.
ResampleClip(audio, sr, self_sample_rate) ==
    LET new_length == (Len(audio) * self_sample_rate) \div sr
        Index(k)   == IF new_length = 1 THEN 0
                      ELSE (k * (Len(audio) - 1)) \div (new_length - 1)
    IN  [k \in 1..new_length |-> audio[Index(k - 1) + 1]]

\* the first loop of stitch_panel: resample if the rate differs, then normalize
ResampledClips(self_sample_rate, clips, norm) ==
    [i \in 1..Len(clips) |->
        LET a == IF clips[i].sr # self_sample_rate
                 THEN ResampleClip(clips[i].audio, clips[i].sr, self_sample_rate)
                 ELSE clips[i].audio
        IN  IF norm THEN NormalizeAudio(a) ELSE a]

\* a plausible slip: the pause appended after every clip, the last one included
RECURSIVE CombineTrailingPause(_, _, _)
CombineTrailingPause(combined, rest, silence) ==
    IF rest = <<>> THEN combined \o silence
    ELSE CombineTrailingPause(combined \o silence \o Head(rest), Tail(rest), silence)

\* the second loop: for clip in resampled_clips[1:]: combined = combined + silence + clip
RECURSIVE CombineWithPauses(_, _, _)
CombineWithPauses(combined, rest, silence) ==
    IF rest = <<>> THEN combined
    ELSE CombineWithPauses(combined \o silence \o Head(rest), Tail(rest), silence)

\* a plausible slip: the emptiness check made only after the output was written
StitchPanelLateCheck(self_sample_rate, clips, pause_ms, norm, path, fs) ==
    LET resampled == ResampledClips(self_sample_rate, clips, norm)
        silence   == AddSilence(self_sample_rate, pause_ms)
        combined  == IF clips = <<>> THEN <<>>
                     ELSE CombineWithPauses(Head(resampled), Tail(resampled), silence)
        written   == IF Truthy(path) THEN SfWrite(fs, path.val, combined, self_sample_rate) ELSE fs
    IN  IF clips = <<>>
        THEN [raised |-> "ValueError", combined |-> <<>>, sr |-> 0, files |-> written]
        ELSE [raised |-> "", combined |-> combined, sr |-> self_sample_rate, files |-> written]

\* stitch_panel: the outcome (raised is "" on return), the returned pair and the
\* file system afterwards
StitchPanel(self_sample_rate, clips, pause_ms, norm, path, fs) ==
    IF clips = <<>>
    THEN [raised |-> "ValueError", combined |-> <<>>, sr |-> 0, files |-> fs]
    ELSE LET resampled == ResampledClips(self_sample_rate, clips, norm)
             silence   == AddSilence(self_sample_rate, pause_ms)
             combined  == CombineWithPauses(Head(resampled), Tail(resampled), silence)
         IN  [raised   |-> "",
              combined |-> combined,
              sr       |-> self_sample_rate,
              files    |-> IF Truthy(path)
                           THEN SfWrite(fs, path.val, combined, self_sample_rate)
                           ELSE fs]

\* ------------------------------------------------------------ strings
\* str.lower() on the characters tried
LowerChar(c) == IF c = "A" THEN "a" ELSE IF c = "I" THEN "i" ELSE c
LowerStr(s) == [i \in 1..Len(s) |-> LowerChar(s[i])]

RECURSIVE LStrip(_)
LStrip(s) == IF s # <<>> /\ Head(s) = " " THEN LStrip(Tail(s)) ELSE s
RECURSIVE RStrip(_)
RStrip(s) == IF s # <<>> /\ s[Len(s)] = " " THEN RStrip(SubSeq(s, 1, Len(s) - 1)) ELSE s
\* str.strip(): leading and trailing whitespace removed
Strip(s) == RStrip(LStrip(s))

\* needle in hay (Python's substring test)
Contains(hay, needle) ==
    \E i \in 0..(Len(hay) - Len(needle)) : SubSeq(hay, i + 1, i + Len(needle)) = needle

\* dict.get(key, default)
Get(d, key, default) == IF key \in DOMAIN d THEN d[key] ELSE default

\* ---------------------------------------------------- ScriptGenerator
\* _normalize_topic: the topic lower-cased and stripped; the alias's value when
\* that is a key of topic_aliases (the keys are compared as loaded)
NormalizeTopic(aliases, t) ==
    LET topic_lower == Strip(LowerStr(t))
    IN  IF topic_lower \in DOMAIN aliases THEN aliases[topic_lower] ELSE topic_lower

\* the default argument value ["modi", "amitabh", "srk", "trump"]
DefaultOrder == <<"modi", "amitabh", "srk", "trump">>

GenericSuffix == <<" is an important subject that deserves our attention and thoughtful discussion.">>

\* random.choice(seq) drawn with r: IndexError on an empty seq
ChoiceRaises(seq) == Len(seq) = 0
Choice(seq, r) == seq[((r - 1) % Len(seq)) + 1]

\* the line of one known character (the if/else of the loop body): raised is
\* "IndexError" when random.choice is given an empty intro_phrases list
CharacterLine(char, normalized_topic, t, r) ==
    IF normalized_topic \in DOMAIN Get(char, "topics", <<>>)
    THEN [raised |-> "", line |-> char.topics[normalized_topic]]
    ELSE LET phrases == Get(char, "intro_phrases", << <<>> >>)
         IN  IF ChoiceRaises(phrases)
             THEN [raised |-> "IndexError", line |-> <<>>]
             ELSE [raised |-> "", line |-> Choice(phrases, r) \o <<" ">> \o t \o GenericSuffix]

\* the loop of generate_panel_script from position i on, script being the lines
\* appended so far; pick[i] is the randomness drawn at position i
RECURSIVE ScriptLoop(_, _, _, _, _, _, _)
ScriptLoop(chars, normalized_topic, t, order, pick, i, script) ==
    IF i > Len(order) THEN [raised |-> "", script |-> script]
    ELSE LET char_id == order[i]
         IN  IF char_id \notin DOMAIN chars
             THEN ScriptLoop(chars, normalized_topic, t, order, pick, i + 1, script)
             ELSE LET char == chars[char_id]
                      l    == CharacterLine(char, normalized_topic, t, pick[i])
                  IN  IF l.raised # ""
                      THEN [raised |-> l.raised, script |-> <<>>]
                      ELSE ScriptLoop(chars, normalized_topic, t, order, pick, i + 1,
                               Append(script,
                                   [character_id   |-> char_id,
                                    character_name |-> char.name,
                                    language       |-> char.language,
                                    line           |-> l.line,
                                    sample_file    |-> Get(char, "sample_file",
                                                           <<char_id, ".wav">>)]))

\* a plausible slip: an empty list is taken for an absent one
EffectiveOrderFalsy(order_opt) == IF Truthy(order_opt) THEN order_opt.val ELSE DefaultOrder

\* character_order as the loop sees it
EffectiveOrder(order_opt) == IF order_opt.some THEN order_opt.val ELSE DefaultOrder

\* generate_panel_script(topic, character_order)
GeneratePanelScript(chars, aliases, t, order_opt, pick) ==
    LET normalized_topic == NormalizeTopic(aliases, t)
        r == ScriptLoop(chars, normalized_topic, t, EffectiveOrder(order_opt), pick, 1, <<>>)
    IN  [raised |-> r.raised, script |-> r.script, normalized_topic |-> normalized_topic]

\* --------------------------------------------------------- VoiceCloner
\* model.create_voice_clone_prompt(ref_audio, ref_text): the opaque token, kept
\* as what it was derived from
VoiceClonePrompt(audio_path, transcript) == [ref_audio |-> audio_path, ref_text |-> transcript]

\* model.generate_voice_clone(text, language, voice_clone_prompt): the opaque
\* waveform, kept as what the model was asked
Wave(text, language, prompt) == [text |-> text, language |-> language, voice_clone_prompt |-> prompt]

\* a plausible slip: a voice id already cached is not derived again
LoadVoiceSampleKeepFirst(vp, voice_id, audio_path, transcript, model_ok) ==
    IF ~model_ok THEN [raised |-> "ModelError", voice_prompts |-> vp]
    ELSE [raised |-> "",
          voice_prompts |-> [v \in DOMAIN vp \cup {voice_id} |->
              IF v \in DOMAIN vp THEN vp[v] ELSE VoiceClonePrompt(audio_path, transcript)]]

\* a plausible slip: the id is entered in the cache before the token is derived
LoadVoiceSampleEnterFirst(vp, voice_id, audio_path, transcript, model_ok) ==
    [raised |-> IF model_ok THEN "" ELSE "ModelError",
     voice_prompts |-> [v \in DOMAIN vp \cup {voice_id} |->
         IF v = voice_id
         THEN (IF model_ok THEN VoiceClonePrompt(audio_path, transcript)
               ELSE VoiceClonePrompt(<<>>, ""))
         ELSE vp[v]]]

\* load_voice_sample: the token is derived (the model may raise; then nothing
\* is stored) and stored under voice_id, replacing any earlier one
LoadVoiceSample(vp, voice_id, audio_path, transcript, model_ok) ==
    IF ~model_ok THEN [raised |-> "ModelError", voice_prompts |-> vp]
    ELSE [raised |-> "",
          voice_prompts |-> [v \in DOMAIN vp \cup {voice_id} |->
              IF v = voice_id THEN VoiceClonePrompt(audio_path, transcript) ELSE vp[v]]]

NoWave == Wave(<<>>, "", VoiceClonePrompt(<<>>, ""))
SpeechFailed(raised, model_call, fs) ==
    [raised |-> raised, model_call |-> model_call, wav |-> NoWave, sr |-> 0, files |-> fs]

\* a plausible slip: the cache is read with a default instead of being checked
GenerateSpeechUnchecked(vp, voice_id, text, language, path, model_ok, fs) ==
    LET prompt == Get(vp, voice_id, VoiceClonePrompt(<<>>, ""))
        asked  == Some(Wave(text, language, prompt))
    IN  IF ~model_ok THEN SpeechFailed("ModelError", asked, fs)
        ELSE [raised |-> "", model_call |-> asked, wav |-> asked.val, sr |-> 24000,
              files |-> IF Truthy(path) THEN SfWrite(fs, path.val, asked.val, 24000) ELSE fs]

\* generate_speech: ValueError before the model is called when voice_id is not
\* cached; else the model is called with the cached token (it may raise), the
\* waveform is written when output_path is given, and (wavs[0], sr) returned.
\* model_call is what the model was asked, None when it was not called.
GenerateSpeech(vp, voice_id, text, language, path, model_ok, fs) ==
    IF voice_id \notin DOMAIN vp THEN SpeechFailed("ValueError", None, fs)
    ELSE LET asked == Some(Wave(text, language, vp[voice_id]))
         IN  IF ~model_ok THEN SpeechFailed("ModelError", asked, fs)
             ELSE [raised |-> "", model_call |-> asked, wav |-> asked.val, sr |-> 24000,
                   files |-> IF Truthy(path) THEN SfWrite(fs, path.val, asked.val, 24000) ELSE fs]

\* str(i) of a list index
Str(i) == CASE i = 0 -> "0" [] i = 1 -> "1" [] i = 2 -> "2" [] i = 3 -> "3" [] OTHER -> "n"

\* the result loop of generate_batch: each wav written as {voice_id}_{i}.wav
\* under output_dir when that is given
RECURSIVE WriteBatch(_, _, _, _, _)
WriteBatch(fs, dir, voice_id, wavs, i) ==
    IF i > Len(wavs) \/ ~Truthy(dir) THEN fs
    ELSE WriteBatch(SfWrite(fs, dir.val \o <<"/", voice_id, "_", Str(i - 1), ".wav">>,
                            wavs[i], 24000),
                    dir, voice_id, wavs, i + 1)

\* generate_batch: the same check, one model call for all texts, one
\* (wav, sr) per text
GenerateBatch(vp, voice_id, texts, languages, output_dir, model_ok, fs) ==
    IF voice_id \notin DOMAIN vp
    THEN [raised |-> "ValueError", model_call |-> None, results |-> <<>>, files |-> fs]
    ELSE LET asked == Some(Wave(texts, languages, vp[voice_id]))
             wavs  == [i \in 1..Len(texts) |-> Wave(texts[i], languages[i], vp[voice_id])]
         IN  IF ~model_ok
             THEN [raised |-> "ModelError", model_call |-> asked, results |-> <<>>, files |-> fs]
             ELSE [raised |-> "", model_call |-> asked,
                   results |-> [i \in 1..Len(wavs) |-> [audio |-> wavs[i], sr |-> 24000]],
                   files |-> WriteBatch(fs, output_dir, voice_id, wavs, 1)]

\* ------------------------------------------------------------- drivers
\* str.replace(' ', '_')
ReplaceSpaces(t) == [i \in 1..Len(t) |-> IF t[i] = " " THEN "_" ELSE t[i]]

\* the directory part of a path, the path being a sequence of pieces of which
\* "/" is the separator (<<>> is the working directory)
RECURSIVE Parent(_)
Parent(path) ==
    IF path = <<>> THEN <<>>
    ELSE IF path[Len(path)] = "/" THEN SubSeq(path, 1, Len(path) - 1)
    ELSE Parent(SubSeq(path, 1, Len(path) - 1))

\* Path.mkdir(parents=True, exist_ok=True): d and every directory above it
RECURSIVE Mkdir(_, _)
Mkdir(ds, d) == IF d = <<>> THEN ds \cup {d} ELSE Mkdir(ds \cup {d}, Parent(d))

\* stitcher.stitch_panel(audio_clips, output_path=...) as the drivers call it
\* (AudioStitcher() at 24000 Hz, pause 800 ms, normalize on), the waveforms
\* being opaque: the same control flow as StitchPanel, the combined buffer kept
\* as the name "panel".  sf.write cannot create the file, and raises, when the
\* directory of output_path does not exist.
StitchPanelFile(clips, path, fs, ds) ==
    IF clips = <<>>
    THEN [raised |-> "ValueError", files |-> fs]
    ELSE IF ~Truthy(path) THEN [raised |-> "", files |-> fs]
    ELSE IF Parent(path.val) \notin ds THEN [raised |-> "LibsndfileError", files |-> fs]
    ELSE [raised |-> "", files |-> SfWrite(fs, path.val, "panel", 24000)]

\* the order in which script_gen.characters.items() yields the characters (the
\* order of the template document)
ItemsOrder(chars) == SelectSeq(DefaultOrder, LAMBDA c : c \in DOMAIN chars)

\* the loop of initialize_cloner from position i of the items on, n loads
\* having been made: char_data["sample_file"] raises KeyError when absent; a
\* sample that exists is loaded, and load number fail_at raises
RECURSIVE WebLoadVoices(_, _, _, _, _, _, _)
WebLoadVoices(vp, chars, order, samples, fail_at, i, n) ==
    IF i > Len(order) THEN [raised |-> "", voice_prompts |-> vp]
    ELSE LET char_id   == order[i]
             char_data == chars[char_id]
         IN  IF "sample_file" \notin DOMAIN char_data
             THEN [raised |-> "KeyError", voice_prompts |-> vp]
             ELSE IF char_data.sample_file \in samples
             THEN LET r == LoadVoiceSample(vp, char_id,
                               <<"voices/samples/">> \o char_data.sample_file,
                               Get(char_data, "sample_transcript", "Sample voice for cloning."),
                               fail_at # n + 1)
                  IN  IF r.raised # "" THEN r
                      ELSE WebLoadVoices(r.voice_prompts, chars, order, samples, fail_at,
                                         i + 1, n + 1)
             ELSE WebLoadVoices(vp, chars, order, samples, fail_at, i + 1, n)

\* initialize_cloner: nothing when the global is set; else the VoiceCloner is
\* constructed (the model may fail to load: the global stays None), assigned
\* to the global, and only then are the voices loaded
InitializeCloner(cl, chars, samples, ctor_ok, fail_at) ==
    IF cl.some THEN [raised |-> "", cloner |-> cl]
    ELSE IF ~ctor_ok THEN [raised |-> "ModelLoadError", cloner |-> None]
    ELSE LET r == WebLoadVoices(<<>>, chars, ItemsOrder(chars), samples, fail_at, 1, 0)
         IN  [raised |-> r.raised, cloner |-> Some([voice_prompts |-> r.voice_prompts])]

\* the "Load voices" loop of cli.py from position i of args.characters on: the
\* sample looked up is {char_id}.wav, whatever the profile says; missing is
\* the ids printed so far as "Missing voice sample"
RECURSIVE CliLoadVoices(_, _, _, _, _, _, _, _)
CliLoadVoices(vp, chars, args_characters, samples, fail_at, i, n, missing) ==
    IF i > Len(args_characters)
    THEN [raised |-> "", voice_prompts |-> vp, missing |-> missing]
    ELSE LET char_id == args_characters[i]
         IN  IF <<char_id, ".wav">> \in samples
             THEN LET char_data == Get(chars, char_id, <<>>)
                      r == LoadVoiceSample(vp, char_id,
                               <<"voices/samples/", char_id, ".wav">>,
                               Get(char_data, "sample_transcript", "Sample voice."),
                               fail_at # n + 1)
                  IN  IF r.raised # ""
                      THEN [raised |-> r.raised, voice_prompts |-> r.voice_prompts,
                            missing |-> missing]
                      ELSE CliLoadVoices(r.voice_prompts, chars, args_characters, samples,
                                         fail_at, i + 1, n + 1, missing)
             ELSE CliLoadVoices(vp, chars, args_characters, samples, fail_at, i + 1, n,
                                missing \cup {char_id})

SpeechCall(item, raised) ==
    [voice_id |-> item.character_id, text |-> item.line, language |-> item.language,
     raised |-> raised]

\* a plausible slip: the first failing line ends the loop
RECURSIVE SynthesizeLinesAbort(_, _, _, _, _, _)
SynthesizeLinesAbort(vp, script, model_ok, i, calls, clips) ==
    IF i > Len(script) THEN [calls |-> calls, clips |-> clips]
    ELSE LET item == script[i]
             r == GenerateSpeech(vp, item.character_id, item.line, item.language, None,
                                 model_ok[i], <<>>)
         IN  IF r.raised # "" THEN [calls |-> Append(calls, SpeechCall(item, r.raised)),
                                    clips |-> clips]
             ELSE SynthesizeLinesAbort(vp, script, model_ok, i + 1,
                      Append(calls, SpeechCall(item, r.raised)),
                      Append(clips, [audio |-> r.wav, sr |-> r.sr]))

\* the synthesis loop of generate_panel (and, line for line, of cli.py's panel
\* command) from line i on: generate_speech per script line inside try/except
\* Exception; a clip is appended on return, a failure is printed and the loop
\* goes on.  calls lists the generate_speech calls made and how each ended.
RECURSIVE SynthesizeLines(_, _, _, _, _, _)
SynthesizeLines(vp, script, model_ok, i, calls, clips) ==
    IF i > Len(script) THEN [calls |-> calls, clips |-> clips]
    ELSE LET item == script[i]
             r == GenerateSpeech(vp, item.character_id, item.line, item.language, None,
                                 model_ok[i], <<>>)
         IN  SynthesizeLines(vp, script, model_ok, i + 1,
                 Append(calls, SpeechCall(item, r.raised)),
                 IF r.raised = "" THEN Append(clips, [audio |-> r.wav, sr |-> r.sr])
                 ELSE clips)

\* what a request leaves behind: how it ended (outcome "ok", or the error that
\* ended it), the voices the cloner had cached, the script, the
\* generate_speech calls, the clips collected, the argument of stitch_panel
\* when it was called, the output path, the output files as they were
\* before, and the ids whose sample was printed as missing (by the CLI: the
\* web application prints nothing of the kind)
Request(driver, op, fs, outcome, synth, vp, script, loop, stitch_arg, path) ==
    [driver |-> driver, op |-> op, outcome |-> outcome, synth_reached |-> synth,
     voice_prompts |-> vp, script |-> script, calls |-> loop.calls, clips |-> loop.clips,
     stitch_arg |-> stitch_arg, path |-> path, files_before |-> fs,
     reported_missing |-> {}]
NoLoop == [calls |-> <<>>, clips |-> <<>>]
Failed(driver, op, fs, outcome) ==
    Request(driver, op, fs, outcome, FALSE, <<>>, <<>>, NoLoop, None, <<>>)
NoReq == Failed("none", "none", <<>>, "")

Outcome(raised) == IF raised = "" THEN "ok" ELSE raised

\* generate_panel after the synthesis loop: gr.Error when no clip was
\* collected, else the output directory is made and the clips are stitched
\* into output_path
WebPanelTail(fs, ds, vp, script, loop, path) ==
    IF loop.clips = <<>>
    THEN [files |-> fs, dirs |-> ds,
          req   |-> Request("web", "panel", fs, "gr.Error", TRUE, vp, script, loop, None, path)]
    ELSE LET made == Mkdir(ds, Parent(path))
             st   == StitchPanelFile(loop.clips, Some(path), fs, made)
         IN  [files |-> st.files, dirs |-> made,
              req   |-> Request("web", "panel", fs, Outcome(st.raised), TRUE, vp, script, loop,
                                Some(loop.clips), path)]

\* cli.py's panel command after the synthesis loop: the clips are handed to
\* stitch_panel as they are, and what it raises ends the run
CliPanelTail(fs, ds, vp, script, loop, path) ==
    LET st == StitchPanelFile(loop.clips, Some(path), fs, ds)
    IN  [files |-> st.files, dirs |-> ds,
         req   |-> Request("cli", "panel", fs, Outcome(st.raised), TRUE, vp, script, loop,
                           Some(loop.clips), path)]

\* generate_panel(topic, selected_characters)
GeneratePanel(cl, fs, ds, chars, aliases, samples, t, selected, ctor_ok, fail_at, pick, model_ok) ==
    LET init == InitializeCloner(cl, chars, samples, ctor_ok, fail_at)
        gen  == GeneratePanelScript(chars, aliases, t, Some(selected), pick)
        path == <<"{BASE_DIR}", "/", "outputs", "/", "generated", "/", "panel_">>
                    \o ReplaceSpaces(t) \o <<".wav">>
        stop(raised) == [cloner |-> init.cloner, files |-> fs, dirs |-> ds,
                         req |-> Failed("web", "panel", fs, raised)]
    IN  IF init.raised # "" THEN stop(init.raised)
        ELSE IF gen.raised # "" THEN stop(gen.raised)
        ELSE LET vp   == init.cloner.val.voice_prompts
                 loop == SynthesizeLines(vp, gen.script, model_ok, 1, <<>>, <<>>)
                 tail == WebPanelTail(fs, ds, vp, gen.script, loop, path)
             IN  [cloner |-> init.cloner, files |-> tail.files, dirs |-> tail.dirs,
                  req |-> tail.req]

\* generate_single_voice(character, text, language)
GenerateSingleVoice(cl, fs, ds, chars, samples, character, text, language, ctor_ok, fail_at, model_ok) ==
    LET init == InitializeCloner(cl, chars, samples, ctor_ok, fail_at)
        path == <<"{BASE_DIR}", "/", "outputs", "/", "generated", "/", character, "_custom.wav">>
    IN  IF init.raised # ""
        THEN [cloner |-> init.cloner, files |-> fs, dirs |-> ds,
              req |-> Failed("web", "single", fs, init.raised)]
        ELSE LET vp == init.cloner.val.voice_prompts
                 r  == GenerateSpeech(vp, character, text, language, Some(path), model_ok, fs)
                 c  == [voice_id |-> character, text |-> text, language |-> language,
                        raised |-> r.raised]
                 loop == [calls |-> <<c>>,
                          clips |-> IF r.raised = "" THEN <<[audio |-> r.wav, sr |-> r.sr]>>
                                    ELSE <<>>]
             IN  [cloner |-> init.cloner, files |-> r.files, dirs |-> Mkdir(ds, Parent(path)),
                  req |-> Request("web", "single", fs, Outcome(r.raised), TRUE, vp, <<>>, loop,
                                  None, path)]

\* cli.py main, command "panel": a VoiceCloner of the run's own
CliPanel(fs, ds, chars, aliases, samples, t, args_characters, args_output, ctor_ok, fail_at, pick, model_ok) ==
    LET loads == CliLoadVoices(<<>>, chars, args_characters, samples, fail_at, 1, 0, {})
        gen   == GeneratePanelScript(chars, aliases, t, Some(args_characters), pick)
        path  == IF Truthy(args_output) THEN args_output.val
                 ELSE <<"panel_">> \o ReplaceSpaces(t) \o <<".wav">>
        stop(raised, printed) ==
            [files |-> fs, dirs |-> ds,
             req |-> [Failed("cli", "panel", fs, raised) EXCEPT !.reported_missing = printed]]
    IN  IF ~ctor_ok THEN stop("ModelLoadError", {})
        ELSE IF loads.raised # "" THEN stop(loads.raised, loads.missing)
        ELSE IF gen.raised # "" THEN stop(gen.raised, loads.missing)
        ELSE LET tail == CliPanelTail(fs, ds, loads.voice_prompts, gen.script,
                             SynthesizeLines(loads.voice_prompts, gen.script, model_ok,
                                             1, <<>>, <<>>),
                             path)
             IN  [tail EXCEPT !.req.reported_missing = loads.missing]

\* ------------------------------------------------------ Template Stores
\* characters typed in a topic
Chars == {"A", "a", "i", " "}
Canonical == <<"artificial intelligence">>

\* a full profile: two topic lines (one under the canonical key, one under
\* "a"), two intro fragments
Modi ==
    [name |-> "Narendra Modi", language |-> "Hindi",
     topics |-> [k \in {Canonical, <<"a">>} |->
                    IF k = Canonical THEN <<"[modi on artificial intelligence]">>
                    ELSE <<"[modi on a]">>],
     intro_phrases |-> << <<"Mitron,">>, <<"Bhaiyon aur behno,">> >>,
     sample_file |-> <<"modi", ".wav">>,
     sample_transcript |-> "modi transcript"]
Amitabh ==
    [name |-> "Amitabh Bachchan", language |-> "Hindi",
     topics |-> [k \in {Canonical} |-> <<"[amitabh on artificial intelligence]">>],
     intro_phrases |-> << <<"Deviyon aur sajjanon,">> >>,
     sample_file |-> <<"amitabh", ".wav">>,
     sample_transcript |-> "amitabh transcript"]
\* no topic mapping and no intro fragments at all; the sample file is not
\* named after the id
Srk ==
    [name |-> "Shah Rukh Khan", language |-> "English",
     sample_file |-> <<"shahrukh", ".wav">>]
\* an empty list of intro fragments
Trump ==
    [name |-> "Donald Trump", language |-> "English",
     topics |-> [k \in {<<"a">>} |-> <<"[trump on a]">>],
     intro_phrases |-> <<>>,
     sample_file |-> <<"trump", ".wav">>,
     sample_transcript |-> "trump transcript"]

StoreEmpty == <<>>
StoreThree ==
    [c \in {"modi", "amitabh", "srk"} |->
        IF c = "modi" THEN Modi ELSE IF c = "amitabh" THEN Amitabh ELSE Srk]
StoreFour ==
    [c \in {"modi", "amitabh", "srk", "trump"} |->
        IF c = "trump" THEN Trump ELSE StoreThree[c]]
Stores == {StoreEmpty, StoreThree, StoreFour}

\* alias tables: none; lower-case trimmed keys; keys that are not lower-case
AliasesNone == <<>>
AliasesLower == [k \in {<<"a", "i">>} |-> Canonical]
AliasesMixed == [k \in {<<"A", "i">>} |-> Canonical]
AliasTables == {AliasesNone, AliasesLower, AliasesMixed}

\* identifiers a caller may name
OrderIds == {"modi", "srk", "trump", "unknown_id"}
\* random.choice picks any of the intro fragments (at most two here)
Picks == 1..2

\* ---------------------------------------------------- idle components
NoBufCall == [op |-> "none", audio1 |-> <<>>, audio2 |-> <<>>, duration_ms |-> 0,
              raised |-> "", out |-> <<>>]

\* a component a specification does not exercise stays as constructed
StitchIdle ==
    /\ sample_rate = 24000
    /\ audio_clips = <<>>
    /\ pause_between_ms = 800
    /\ normalize = TRUE
    /\ output_path = None
    /\ stitch_ret = [kind |-> "pending", combined |-> <<>>, sr |-> 0]
    /\ buf_call = NoBufCall

GenIdle ==
    /\ characters = <<>>
    /\ topic_aliases = <<>>
    /\ topic = <<>>
    /\ character_order = None
    /\ gen_ret = [kind |-> "pending", script |-> <<>>, normalized_topic |-> <<>>]

NoCall == [op |-> "none", voice_id |-> "", raised |-> "", before |-> <<>>, model_call |-> None]

ClonerIdle ==
    /\ cloner = None
    /\ call = NoCall
    /\ last_load = <<>>

\* no driver has run: the working directory and the repository's directory
\* exist, nothing else is looked at
AppIdle ==
    /\ sample_files = {}
    /\ dirs = {<<>>, <<"{BASE_DIR}">>}
    /\ req = NoReq

\* ------------------------------------------- specification: the Stitcher
Clips == [audio : Buffers, sr : Rates]
\* output_path: the default None, the empty string, a file name
OutputPaths == {None, Some(<<>>), Some(<<"panel.wav">>)}

NoRet == [kind |-> "pending", combined |-> <<>>, sr |-> 0]

InitStitch ==
    /\ sample_rate \in Rates
    /\ audio_clips \in SeqsUpTo(Clips, MaxClips)
    /\ pause_between_ms \in 0..MaxPause
    /\ normalize \in BOOLEAN
    /\ output_path \in OutputPaths
    /\ stitch_ret = NoRet
    /\ buf_call = NoBufCall
    /\ files = <<>>
    /\ GenIdle
    /\ ClonerIdle
    /\ AppIdle

\* one call stitcher.stitch_panel(audio_clips, pause_between_ms, normalize, output_path)
StitchPanelCall ==
    /\ stitch_ret.kind = "pending"
    /\ LET r == StitchPanel(sample_rate, audio_clips, pause_between_ms, normalize,
                            output_path, files)
       IN  /\ stitch_ret' = [kind     |-> IF r.raised = "" THEN "returned" ELSE r.raised,
                             combined |-> r.combined,
                             sr       |-> r.sr]
           /\ files' = r.files
    /\ UNCHANGED <<sample_rate, audio_clips, pause_between_ms, normalize, output_path, buf_call>>
    /\ UNCHANGED <<genVars, clonerVars, appVars>>

NextStitch == StitchPanelCall

SpecStitch == InitStitch /\ [][NextStitch]_vars

\* ------------------------------- specification: the Stitcher's buffers
\* add_silence and crossfade of one AudioStitcher called from outside, in any
\* order
InitBuffers ==
    /\ sample_rate \in Rates
    /\ audio_clips = <<>>
    /\ pause_between_ms = 800
    /\ normalize = TRUE
    /\ output_path = None
    /\ stitch_ret = NoRet
    /\ buf_call = NoBufCall
    /\ files = <<>>
    /\ GenIdle
    /\ ClonerIdle
    /\ AppIdle

\* stitcher.add_silence(duration_ms)
AddSilenceCall ==
    /\ \E duration_ms \in 0..MaxDuration :
          buf_call' = [op |-> "add_silence", audio1 |-> <<>>, audio2 |-> <<>>,
                       duration_ms |-> duration_ms, raised |-> "",
                       out |-> AddSilence(sample_rate, duration_ms)]
    /\ UNCHANGED <<sample_rate, audio_clips, pause_between_ms, normalize, output_path, stitch_ret>>
    /\ UNCHANGED <<files, genVars, clonerVars, appVars>>

\* stitcher.crossfade(audio1, audio2, fade_duration_ms)
CrossfadeCall ==
    /\ \E audio1 \in Buffers, audio2 \in Buffers, fade_duration_ms \in 0..MaxDuration :
          LET r == Crossfade(sample_rate, audio1, audio2, fade_duration_ms)
          IN  buf_call' = [op |-> "crossfade", audio1 |-> audio1, audio2 |-> audio2,
                           duration_ms |-> fade_duration_ms, raised |-> r.raised,
                           out |-> r.out]
    /\ UNCHANGED <<sample_rate, audio_clips, pause_between_ms, normalize, output_path, stitch_ret>>
    /\ UNCHANGED <<files, genVars, clonerVars, appVars>>

NextBuffers == AddSilenceCall \/ CrossfadeCall

SpecBuffers == InitBuffers /\ [][NextBuffers]_vars

\* ----------------------------------- specification: the Script Generator
InitGen ==
    /\ characters \in Stores
    /\ topic_aliases \in AliasTables
    /\ topic \in SeqsUpTo(Chars, MaxTopicLen)
    /\ character_order \in {None} \cup {Some(o) : o \in SeqsUpTo(OrderIds, MaxOrder)}
    /\ gen_ret = [kind |-> "pending", script |-> <<>>, normalized_topic |-> <<>>]
    /\ StitchIdle
    /\ files = <<>>
    /\ ClonerIdle
    /\ AppIdle

\* one call script_gen.generate_panel_script(topic, character_order)
GeneratePanelScriptCall ==
    /\ gen_ret.kind = "pending"
    /\ \E pick \in [1..Len(EffectiveOrder(character_order)) -> Picks] :
          LET r == GeneratePanelScript(characters, topic_aliases, topic, character_order, pick)
          IN  gen_ret' = [kind             |-> IF r.raised = "" THEN "returned" ELSE r.raised,
                          script           |-> r.script,
                          normalized_topic |-> r.normalized_topic]
    /\ UNCHANGED <<characters, topic_aliases, topic, character_order>>
    /\ UNCHANGED <<stitchVars, files, clonerVars, appVars>>

NextGen == GeneratePanelScriptCall

SpecGen == InitGen /\ [][NextGen]_vars

\* -------------------------------- specification: the Voice Synthesis Adapter
\* a VoiceCloner called from outside, in any order
VoiceIds == {"modi", "srk"}
AudioPaths == {<<"modi", ".wav">>, <<"other", ".wav">>}
Transcripts == {"sample transcript"}
Texts == {<<"hello">>}
Languages == {"Auto"}
SpeechPaths == {None, Some(<<"speech.wav">>)}
BatchDirs == {None, Some(<<"out">>)}

InitCloner ==
    /\ cloner = Some([voice_prompts |-> <<>>])
    /\ call = NoCall
    /\ last_load = <<>>
    /\ files = <<>>
    /\ StitchIdle
    /\ GenIdle
    /\ AppIdle

\* cloner.load_voice_sample(voice_id, audio_path, transcript)
LoadVoiceSampleCall ==
    \E voice_id \in VoiceIds, audio_path \in AudioPaths, transcript \in Transcripts,
       model_ok \in BOOLEAN :
        LET vp == cloner.val.voice_prompts
            r  == LoadVoiceSample(vp, voice_id, audio_path, transcript, model_ok)
        IN  /\ cloner' = Some([voice_prompts |-> r.voice_prompts])
            /\ call' = [op |-> "load_voice_sample", voice_id |-> voice_id,
                        raised |-> r.raised, before |-> vp, model_call |-> None]
            /\ last_load' =
                   IF model_ok
                   THEN [v \in DOMAIN last_load \cup {voice_id} |->
                            IF v = voice_id THEN VoiceClonePrompt(audio_path, transcript)
                            ELSE last_load[v]]
                   ELSE last_load
            /\ UNCHANGED <<files, stitchVars, genVars, appVars>>

\* cloner.generate_speech(voice_id, text, language, output_path)
GenerateSpeechCall ==
    \E voice_id \in VoiceIds, text \in Texts, language \in Languages,
       path \in SpeechPaths, model_ok \in BOOLEAN :
        LET vp == cloner.val.voice_prompts
            r  == GenerateSpeech(vp, voice_id, text, language, path, model_ok, files)
        IN  /\ call' = [op |-> "generate_speech", voice_id |-> voice_id,
                        raised |-> r.raised, before |-> vp, model_call |-> r.model_call]
            /\ files' = r.files
            /\ UNCHANGED <<cloner, last_load, stitchVars, genVars, appVars>>

\* cloner.generate_batch(voice_id, texts, languages, output_dir)
GenerateBatchCall ==
    \E voice_id \in VoiceIds, texts \in SeqsUpTo(Texts, MaxBatch), language \in Languages,
       dir \in BatchDirs, model_ok \in BOOLEAN :
        LET vp == cloner.val.voice_prompts
            r  == GenerateBatch(vp, voice_id, texts, [i \in 1..Len(texts) |-> language],
                                dir, model_ok, files)
        IN  /\ call' = [op |-> "generate_batch", voice_id |-> voice_id,
                        raised |-> r.raised, before |-> vp, model_call |-> r.model_call]
            /\ files' = r.files
            /\ UNCHANGED <<cloner, last_load, stitchVars, genVars, appVars>>

NextCloner == LoadVoiceSampleCall \/ GenerateSpeechCall \/ GenerateBatchCall

SpecCloner == InitCloner /\ [][NextCloner]_vars

\* ------------------------------------------- specification: the drivers
\* the web application answering requests one after another with its global
\* cloner, and one run of cli.py's panel command in a fresh checkout
SampleConfigs ==
    { {},
      {<<"modi", ".wav">>, <<"amitabh", ".wav">>, <<"shahrukh", ".wav">>},
      {<<"modi", ".wav">>, <<"amitabh", ".wav">>, <<"shahrukh", ".wav">>,
       <<"srk", ".wav">>, <<"trump", ".wav">>} }
\* a topic the alias-free templates map once trimmed, and one holding a path
\* separator that only some characters have no line for
DriverTopics == { <<"a", " ">>, <<"a", "/", "i">> }
SingleIds == {"modi", "unknown_id"}
CliOutputs == {None, Some(<<"out.wav">>)}

InitApp ==
    /\ sample_files \in SampleConfigs
    /\ dirs = {<<>>, <<"{BASE_DIR}">>}
    /\ req = NoReq
    /\ files = <<>>
    /\ characters = StoreFour
    /\ topic_aliases = AliasesLower
    /\ topic = <<>>
    /\ character_order = None
    /\ gen_ret = [kind |-> "pending", script |-> <<>>, normalized_topic |-> <<>>]
    /\ StitchIdle
    /\ ClonerIdle

\* how the construction and the loading of the voices may go: nothing is
\* constructed or loaded once the global cloner is set
CtorOutcomes(cl) == IF cl.some THEN {TRUE} ELSE BOOLEAN
LoadFailures(cl, n) == IF cl.some THEN {0} ELSE 0..n

\* random.choice taking the fragment at the same position for every line
SamePick(order, p) == [i \in 1..Len(order) |-> p]

\* a click on "Generate Panel"
WebGeneratePanel ==
    /\ req.driver = "none"
    /\ \E t \in DriverTopics, selected \in SeqsUpTo(OrderIds, MaxOrder) :
       \E ctor_ok \in CtorOutcomes(cloner),
          fail_at \in LoadFailures(cloner, Len(ItemsOrder(characters))),
          p \in Picks,
          model_ok \in [1..Len(selected) -> BOOLEAN] :
          LET r == GeneratePanel(cloner, files, dirs, characters, topic_aliases, sample_files,
                                 t, selected, ctor_ok, fail_at, SamePick(selected, p), model_ok)
          IN  /\ cloner' = r.cloner
              /\ files' = r.files
              /\ dirs' = r.dirs
              /\ req' = r.req
    /\ UNCHANGED <<sample_files, call, last_load, stitchVars, genVars>>

\* a click on "Generate" of the single-voice tab
WebGenerateSingleVoice ==
    /\ req.driver = "none"
    /\ \E character \in SingleIds, text \in Texts, language \in Languages :
       \E ctor_ok \in CtorOutcomes(cloner),
          fail_at \in LoadFailures(cloner, Len(ItemsOrder(characters))),
          model_ok \in BOOLEAN :
          LET r == GenerateSingleVoice(cloner, files, dirs, characters, sample_files,
                                       character, text, language, ctor_ok, fail_at, model_ok)
          IN  /\ cloner' = r.cloner
              /\ files' = r.files
              /\ dirs' = r.dirs
              /\ req' = r.req
    /\ UNCHANGED <<sample_files, call, last_load, stitchVars, genVars>>

\* the handler has returned or raised; the application waits for the next event
WebNextRequest ==
    /\ req.driver = "web"
    /\ req' = NoReq
    /\ UNCHANGED <<sample_files, dirs, files, clonerVars, stitchVars, genVars>>

\* python cli.py panel TOPIC [--characters ...] [--output O], run once
\* where nothing has run before; the process ends with the run
CliPanelRun ==
    /\ req.driver = "none" /\ ~cloner.some /\ files = <<>>
    /\ \E t \in DriverTopics,
          args_characters \in {DefaultOrder} \cup (SeqsUpTo(OrderIds, MaxOrder) \ {<<>>}),
          args_output \in CliOutputs :
       \E ctor_ok \in BOOLEAN, fail_at \in 0..Len(args_characters),
          p \in Picks,
          model_ok \in [1..Len(args_characters) -> BOOLEAN] :
          LET r == CliPanel(files, dirs, characters, topic_aliases, sample_files, t,
                            args_characters, args_output, ctor_ok, fail_at,
                            SamePick(args_characters, p), model_ok)
          IN  /\ files' = r.files
              /\ dirs' = r.dirs
              /\ req' = r.req
    /\ UNCHANGED <<sample_files, clonerVars, stitchVars, genVars>>

NextApp == WebGeneratePanel \/ WebGenerateSingleVoice \/ WebNextRequest \/ CliPanelRun

SpecApp == InitApp /\ [][NextApp]_vars

\* =================================================================== claims
RECURSIVE SumLen(_)
SumLen(clips) == IF clips = <<>> THEN 0 ELSE Len(Head(clips).audio) + SumLen(Tail(clips))

AllAtConfiguredRate == \A i \in 1..Len(audio_clips) : audio_clips[i].sr = sample_rate

\* where clip k starts in the output (0-based), with a silence of S samples
\* after each of the k - 1 clips before it
ClipOffset(k, S) == SumLen(SubSeq(audio_clips, 1, k - 1)) + (k - 1) * S

\* C1: stitch of n >= 1 clips that are at the configured rate, not normalized,
\* returns the clips in input order with one silence(pause_ms) between each
\* consecutive pair and none at either end: every clip lies unchanged at its
\* offset, every gap is zeros, the length is the sum of the clip lengths plus
\* (n - 1) silences, and the returned rate is the configured rate.
C1_StitchConcatenatesInOrder ==
    (stitch_ret.kind = "returned" /\ ~normalize /\ AllAtConfiguredRate) =>
        LET n == Len(audio_clips)
            S == Len(AddSilence(sample_rate, pause_between_ms))
            out == stitch_ret.combined
        IN  /\ n >= 1
            /\ stitch_ret.sr = sample_rate
            /\ Len(out) = SumLen(audio_clips) + (n - 1) * S
            /\ \A k \in 1..n : \A p \in 1..Len(audio_clips[k].audio) :
                   out[ClipOffset(k, S) + p] = audio_clips[k].audio[p]
            /\ \A k \in 1..(n - 1) : \A p \in 1..S :
                   out[ClipOffset(k, S) + Len(audio_clips[k].audio) + p] = 0

\* the spec's scenario scaled down: two clips of 2 and 1 samples at 2500 Hz with
\* a 1 ms pause (2 samples) give 2 + 2 + 1 = 5 samples
C1_Witness ==
    /\ stitch_ret.kind = "returned" /\ ~normalize /\ AllAtConfiguredRate
    /\ sample_rate = 2500 /\ pause_between_ms = 1
    /\ Len(audio_clips) = 2
    /\ Len(audio_clips[1].audio) = 2 /\ Len(audio_clips[2].audio) = 1
    /\ Len(stitch_ret.combined) = 5

\* C2: stitch of an empty clip list fails with the empty-input condition
\* whatever pause_ms, normalize_each and output_path are, and no file has been
\* written when it fails.
C2_EmptyInputFails ==
    (audio_clips = <<>> /\ stitch_ret.kind # "pending") =>
        (stitch_ret.kind = "ValueError" /\ DOMAIN files = {})

C2_Witness ==
    /\ audio_clips = <<>> /\ stitch_ret.kind = "ValueError"
    /\ Truthy(output_path) /\ normalize /\ pause_between_ms > 0

\* ---------------------------------------------------------- generate
GenDone == gen_ret.kind # "pending"
GenReturned == gen_ret.kind = "returned"

\* the entries of an order that are in the Template Store, in order
KnownEntries(order) == SelectSeq(order, LAMBDA c : c \in DOMAIN characters)
ScriptIds == [i \in 1..Len(gen_ret.script) |-> gen_ret.script[i].character_id]

\* topic mapping of the character of script line i
TopicsOfLine(i) == Get(characters[gen_ret.script[i].character_id], "topics", <<>>)

\* what holds of every script that generate does return: one line per known
\* entry of character_order, in order, duplicates kept
ReturnedScriptFollowsOrder ==
    GenReturned => ScriptIds = KnownEntries(EffectiveOrder(character_order))

\* what holds of every script that generate does return: the mapped line
\* verbatim, else a non-empty line containing the topic as typed
ReturnedLinesResolve ==
    GenReturned =>
        \A i \in 1..Len(gen_ret.script) :
            IF gen_ret.normalized_topic \in DOMAIN TopicsOfLine(i)
            THEN gen_ret.script[i].line = TopicsOfLine(i)[gen_ret.normalized_topic]
            ELSE gen_ret.script[i].line # <<>> /\ Contains(gen_ret.script[i].line, topic)

\* C7: for every topic and every character_order, generate returns one Script
\* Line per entry of character_order that is in the Template Store, in the
\* same relative order, duplicates kept, unknown entries skipped.
C7_OneLinePerKnownEntry ==
    GenDone => (GenReturned /\ ScriptIds = KnownEntries(EffectiveOrder(character_order)))

EqualIgnoringCaseAndSpace(a, b) == Strip(LowerStr(a)) = Strip(LowerStr(b))

\* C8: a topic that equals an alias key ignoring case and surrounding
\* whitespace is looked up under that alias's canonical topic; a topic
\* matching no alias is looked up lower-cased and trimmed.
C8_AliasLookupIgnoresCase ==
    GenDone =>
        /\ \A k \in DOMAIN topic_aliases :
               EqualIgnoringCaseAndSpace(topic, k) =>
                   gen_ret.normalized_topic = topic_aliases[k]
        /\ (\A k \in DOMAIN topic_aliases : ~EqualIgnoringCaseAndSpace(topic, k)) =>
               gen_ret.normalized_topic = Strip(LowerStr(topic))

\* C9: for every known character generate returns the mapped line verbatim
\* when the normalized topic is a key of its topic mapping, and otherwise a
\* non-empty line that contains the topic as typed.
C9_FallbackLineContainsTopic ==
    GenDone =>
        /\ GenReturned
        /\ \A i \in 1..Len(gen_ret.script) :
               IF gen_ret.normalized_topic \in DOMAIN TopicsOfLine(i)
               THEN gen_ret.script[i].line = TopicsOfLine(i)[gen_ret.normalized_topic]
               ELSE gen_ret.script[i].line # <<>> /\ Contains(gen_ret.script[i].line, topic)

\* C10: generate never raises because of the topic, whatever the topic, the
\* character_order and the loaded profiles (an empty list of intro fragments
\* and an absent topic mapping included).
C10_GenerateNeverRaises ==
    GenDone => GenReturned

\* the entries the loop goes through: the argument, or the four default ids
\* when the argument is None (an empty list is gone through as it is)
OrderAsked ==
    IF character_order.some THEN character_order.val
    ELSE <<"modi", "amitabh", "srk", "trump">>
NoneKnown == \A i \in 1..Len(OrderAsked) : OrderAsked[i] \notin DOMAIN characters

\* C11 as stated: generate returns an empty sequence only when the Template
\* Store has no entries.
C11_EmptyOnlyForEmptyStore ==
    (GenReturned /\ gen_ret.script = <<>>) => DOMAIN characters = {}

\* C11 as the code has it: a call that returns gives an empty sequence exactly
\* when no entry of character_order (the default order when it is None) is in
\* the Template Store, which an empty store, an empty list and a list made
\* only of unknown identifiers all bring about.
C11_EmptyIffNoKnownEntry ==
    GenReturned => ((gen_ret.script = <<>>) <=> NoneKnown)

\* a store with entries, an order naming only an unknown identifier
C11_Witness ==
    /\ GenReturned /\ gen_ret.script = <<>>
    /\ DOMAIN characters # {}
    /\ character_order = Some(<<"unknown_id">>)
\* the same store asked with an empty list
EmptyOrderEmptyScript ==
    /\ GenReturned /\ gen_ret.script = <<>>
    /\ DOMAIN characters # {}
    /\ character_order = Some(<<>>)

\* ------------------------------------------------------- VoiceCloner
CachedNow == cloner.val.voice_prompts
Synthesis == call.op \in {"generate_speech", "generate_batch"}

\* C5: synthesize (generate_speech, generate_batch) of an id with no cached
\* token fails with the voice-not-loaded condition without calling the
\* external model, whatever the text and language; and whenever the model is
\* reached for an id, a load_voice of that id has completed before.
C5_VoiceNotLoadedFails ==
    /\ (Synthesis /\ call.voice_id \notin DOMAIN call.before) =>
           (call.raised = "ValueError" /\ ~call.model_call.some)
    /\ (Synthesis /\ call.model_call.some) => call.voice_id \in DOMAIN last_load

\* synthesis of an id that is not cached while another id is
C5_Witness ==
    /\ call.op = "generate_speech"
    /\ call.voice_id \notin DOMAIN call.before
    /\ DOMAIN call.before # {}
    /\ call.raised = "ValueError"

\* C6: load_voice is last-write-wins per id: the cache holds, for every id,
\* the token of the latest load_voice of that id that completed; a completed
\* load_voice leaves the tokens of all other ids as they were; and synthesize
\* hands the model that latest token.
C6_LastWriteWins ==
    /\ DOMAIN CachedNow = DOMAIN last_load
    /\ \A v \in DOMAIN CachedNow : CachedNow[v] = last_load[v]
    /\ (call.op = "load_voice_sample" /\ call.raised = "") =>
           /\ DOMAIN CachedNow = DOMAIN call.before \cup {call.voice_id}
           /\ \A v \in DOMAIN call.before \ {call.voice_id} : CachedNow[v] = call.before[v]
    /\ (call.op = "generate_speech" /\ call.model_call.some) =>
           call.model_call.val.voice_clone_prompt = last_load[call.voice_id]

\* a load_voice that replaced the token of an id while another id was cached
C6_Witness ==
    /\ call.op = "load_voice_sample" /\ call.raised = ""
    /\ call.voice_id \in DOMAIN call.before
    /\ call.before[call.voice_id] # CachedNow[call.voice_id]
    /\ DOMAIN call.before \ {call.voice_id} # {}


\* ---------------------------------------------------------- drivers
\* a panel request (web or CLI) that got as far as the synthesis loop
PanelLooped == req.op = "panel" /\ req.synth_reached

\* the clip generate_speech returns for a call, given the cached voices
ClipOf(c, vp) == [audio |-> Wave(c.text, c.language, vp[c.voice_id]), sr |-> 24000]

\* the clips of the calls that returned, in call order
RECURSIVE ClipsOfSucceeded(_, _)
ClipsOfSucceeded(calls, vp) ==
    IF calls = <<>> THEN <<>>
    ELSE LET rest == ClipsOfSucceeded(Tail(calls), vp)
         IN  IF Head(calls).raised = "" THEN <<ClipOf(Head(calls), vp)>> \o rest ELSE rest

\* C3: in the panel driver (web and CLI) a line whose synthesis fails does not
\* abort the others: generate_speech is called exactly once per script line, in
\* script order, with that line's voice, text and language; the clips collected
\* are exactly those of the lines whose call returned, in script order; and
\* that is the sequence handed to the stitcher whenever it is called.
C3_FailuresAreIsolated ==
    PanelLooped =>
        /\ Len(req.calls) = Len(req.script)
        /\ \A i \in 1..Len(req.script) :
               /\ req.calls[i].voice_id = req.script[i].character_id
               /\ req.calls[i].text = req.script[i].line
               /\ req.calls[i].language = req.script[i].language
        /\ req.clips = ClipsOfSucceeded(req.calls, req.voice_prompts)
        /\ req.stitch_arg.some => req.stitch_arg.val = req.clips
        /\ req.clips # <<>> => req.stitch_arg.some

\* a web request whose first line fails (its voice was never loaded) and whose
\* second line is synthesized and stitched
C3_Witness ==
    /\ PanelLooped /\ req.driver = "web"
    /\ Len(req.script) = 2
    /\ req.calls[1].raised = "ValueError" /\ req.calls[2].raised = ""
    /\ req.stitch_arg.some /\ Len(req.stitch_arg.val) = 1
    /\ req.outcome = "ok"

\* the same in a run of the CLI, the failure being the model's
FailuresAreIsolatedCli ==
    /\ PanelLooped /\ req.driver = "cli"
    /\ Len(req.script) = 2
    /\ req.calls[1].raised = "ModelError" /\ req.calls[2].raised = ""
    /\ req.stitch_arg.some /\ Len(req.stitch_arg.val) = 1

PanelDone == req.op = "panel"
Succeeded == SelectSeq(req.calls, LAMBDA c : c.raised = "")

\* C4: a panel request (web or CLI) fails if and only if no script line
\* produced a clip: with at least one clip the request stitches and the output
\* file exists afterwards; with none (an empty script included) the request
\* ends in failure and the output files are as they were.
C4_FailsIffNoClip ==
    PanelDone =>
        /\ (req.outcome # "ok") <=> (Succeeded = <<>>)
        /\ Succeeded # <<>> => (req.stitch_arg.some /\ req.path \in DOMAIN files)
        /\ Succeeded = <<>> => files = req.files_before

\* what does hold: the same, for the requests whose output directory exists
\* when the file is written (every web request: generate_panel makes it)
PanelFailsIffNoClipWhenWritable ==
    (PanelDone /\ (req.synth_reached => Parent(req.path) \in dirs)) =>
        /\ (req.outcome # "ok") <=> (Succeeded = <<>>)
        /\ Succeeded # <<>> => (req.stitch_arg.some /\ req.path \in DOMAIN files)
        /\ Succeeded = <<>> => files = req.files_before
WebPanelFailsIffNoClip ==
    (PanelDone /\ req.driver = "web") =>
        /\ (req.outcome # "ok") <=> (Succeeded = <<>>)
        /\ Succeeded # <<>> => (req.stitch_arg.some /\ req.path \in DOMAIN files)
        /\ Succeeded = <<>> => files = req.files_before

\* the run of the CLI that contradicts C4: clips were collected, sf.write
\* could not create the file
CliUnwritable ==
    /\ PanelDone /\ req.driver = "cli"
    /\ Succeeded # <<>> /\ req.outcome = "LibsndfileError"


\* ---------------------------------------------------------- buffers
Crossfaded == buf_call.op = "crossfade"
FadeSamples == (sample_rate * buf_call.duration_ms) \div 1000
LenBoth == Len(buf_call.audio1) + Len(buf_call.audio2)

\* C12: for all buffers A and B and every fade_ms >= 0, crossfade returns
\* without error a buffer of len(A) + len(B) - fade_samples samples when both
\* lengths exceed fade_samples, and of len(A) + len(B) samples in every other
\* case, a length equal to fade_samples included.
C12_CrossfadeLength ==
    Crossfaded =>
        /\ buf_call.raised = ""
        /\ Len(buf_call.out) =
               IF Len(buf_call.audio1) > FadeSamples /\ Len(buf_call.audio2) > FadeSamples
               THEN LenBoth - FadeSamples
               ELSE LenBoth

\* what the code does: a fade of at least one sample never fails, overlaps the
\* buffers when both are at least fade_samples long (equal included) and
\* concatenates them otherwise
CrossfadeLengthOfPositiveFade ==
    (Crossfaded /\ FadeSamples > 0) =>
        /\ buf_call.raised = ""
        /\ Len(buf_call.out) =
               IF Len(buf_call.audio1) >= FadeSamples /\ Len(buf_call.audio2) >= FadeSamples
               THEN LenBoth - FadeSamples
               ELSE LenBoth

\* a fade of no sample on a first buffer of two samples or more raises
ZeroFadeRaises ==
    /\ Crossfaded /\ FadeSamples = 0
    /\ Len(buf_call.audio1) >= 2
    /\ buf_call.raised = "ValueError"
\* a fade of no sample on a first buffer of one sample loses that sample
ZeroFadeDropsSample ==
    /\ Crossfaded /\ FadeSamples = 0
    /\ Len(buf_call.audio1) = 1
    /\ buf_call.raised = "" /\ buf_call.out = buf_call.audio2


Silenced == buf_call.op = "add_silence"
AllZero(buf) == \A i \in 1..Len(buf) : buf[i] = 0

\* C13 as stated: for every configured sample rate and every duration_ms >= 0,
\* silence(duration_ms) returns exactly round(sample_rate * duration_ms / 1000)
\* samples, all zero.
C13_SilenceRounded ==
    Silenced =>
        /\ Len(buf_call.out) = Round(sample_rate * buf_call.duration_ms, 1000)
        /\ AllZero(buf_call.out)

\* C13 as the code has it: add_silence(duration_ms) returns exactly
\* floor(sample_rate * duration_ms / 1000) samples, all zero: the fraction of
\* a sample is dropped, never rounded up.
C13_SilenceTruncated ==
    Silenced =>
        LET n == Len(buf_call.out)
        IN  /\ n * 1000 <= sample_rate * buf_call.duration_ms
            /\ sample_rate * buf_call.duration_ms < (n + 1) * 1000
            /\ AllZero(buf_call.out)

\* 3 ms at 2500 Hz are 7.5 samples: 7 are returned, not 8
C13_Witness ==
    /\ Silenced /\ sample_rate = 2500 /\ buf_call.duration_ms = 3
    /\ Len(buf_call.out) = 7


\* ---------------------------------------------------------- resampling
\* where the samples of clip k start in the output (0-based) when clip j takes
\* NL(j) samples and S samples of silence follow each clip but the last
RECURSIVE PieceOffset(_, _, _)
PieceOffset(k, NL(_), S) == IF k = 1 THEN 0 ELSE PieceOffset(k - 1, NL, S) + NL(k - 1) + S

Resampled(k) == audio_clips[k].sr # sample_rate
PauseLen == Len(AddSilence(sample_rate, pause_between_ms))
StitchedRaw == stitch_ret.kind = "returned" /\ ~normalize

\* round(length * to_rate / from_rate), and the length itself at the same rate
RoundedLen(k) ==
    IF Resampled(k) THEN Round(Len(audio_clips[k].audio) * sample_rate, audio_clips[k].sr)
    ELSE Len(audio_clips[k].audio)
\* floor(length * to_rate / from_rate), and the length itself at the same rate
TruncatedLen(k) ==
    IF Resampled(k) THEN (Len(audio_clips[k].audio) * sample_rate) \div audio_clips[k].sr
    ELSE Len(audio_clips[k].audio)

\* the 0-based input index of output sample p (1-based) of clip k, the n output
\* positions being evenly spaced over [0, length - 1]: the nearest integer, and
\* the integer part
NearestIndex(k, p, n) ==
    IF ~Resampled(k) THEN p - 1
    ELSE IF n = 1 THEN 0
    ELSE Round((p - 1) * (Len(audio_clips[k].audio) - 1), n - 1)
TruncatedIndex(k, p, n) ==
    IF ~Resampled(k) THEN p - 1
    ELSE IF n = 1 THEN 0
    ELSE ((p - 1) * (Len(audio_clips[k].audio) - 1)) \div (n - 1)

\* C14 as stated: a clip whose rate differs from the configured rate takes
\* round(length * to_rate / from_rate) samples of the output, the k-th being
\* the input sample at the integer index nearest to the k-th of new_length
\* evenly spaced positions over [0, length - 1]; a clip at the configured rate
\* is passed through unchanged.
C14_ResampleRounded ==
    StitchedRaw =>
        LET n == Len(audio_clips)
            out == stitch_ret.combined
        IN  /\ Len(out) = PieceOffset(n, RoundedLen, PauseLen) + RoundedLen(n)
            /\ \A k \in 1..n : \A p \in 1..RoundedLen(k) :
                   out[PieceOffset(k, RoundedLen, PauseLen) + p] =
                       audio_clips[k].audio[NearestIndex(k, p, RoundedLen(k)) + 1]

\* C14 as the code has it: a clip whose rate differs takes
\* floor(length * to_rate / from_rate) samples, the k-th being the input sample
\* at the integer part of the k-th of new_length evenly spaced positions over
\* [0, length - 1] (so the last input sample is kept only by the last output
\* sample); a clip at the configured rate is passed through unchanged.
C14_ResampleTruncated ==
    StitchedRaw =>
        LET n == Len(audio_clips)
            out == stitch_ret.combined
        IN  /\ Len(out) = PieceOffset(n, TruncatedLen, PauseLen) + TruncatedLen(n)
            /\ \A k \in 1..n : \A p \in 1..TruncatedLen(k) :
                   out[PieceOffset(k, TruncatedLen, PauseLen) + p] =
                       audio_clips[k].audio[TruncatedIndex(k, p, TruncatedLen(k)) + 1]

\* two samples at 1000 Hz stitched at 2500 Hz become five, at the positions
\* 0, 0.25, 0.5, 0.75, 1: the fourth is still the first input sample
C14_Witness ==
    /\ StitchedRaw /\ Len(audio_clips) = 1
    /\ sample_rate = 2500 /\ audio_clips[1].sr = 1000
    /\ Len(audio_clips[1].audio) = 2
    /\ Len(stitch_ret.combined) = 5
    /\ stitch_ret.combined[4] = audio_clips[1].audio[1]
\* two samples at 2500 Hz stitched at 1000 Hz are 0.8 of a sample: none is kept
ResampledToNothing ==
    /\ StitchedRaw /\ Len(audio_clips) = 1
    /\ sample_rate = 1000 /\ audio_clips[1].sr = 2500
    /\ Len(audio_clips[1].audio) = 2
    /\ stitch_ret.combined = <<>>


\* ---------------------------------------------------------- missing samples
\* the sample file a driver looks for: the profile's sample_file in the web
\* application, {char_id}.wav in the CLI
SampleOf(driver, char_id) ==
    IF driver = "web" THEN characters[char_id].sample_file ELSE <<char_id, ".wav">>
SampleMissing(i) == SampleOf(req.driver, req.script[i].character_id) \notin sample_files

\* C15: in a panel request that reaches synthesis, a character whose sample
\* file is missing has no cached voice token, its missing sample has been
\* reported, and each of its lines fails with the voice-not-loaded condition
\* (ValueError); the lines of the characters with a loaded voice are handed to
\* the model, and those that return are the clips stitched.
C15_MissingSampleReportedAndDropped ==
    PanelLooped =>
        /\ \A i \in 1..Len(req.script) :
               LET id == req.script[i].character_id
               IN  /\ SampleMissing(i) =>
                          /\ id \notin DOMAIN req.voice_prompts
                          /\ id \in req.reported_missing
                          /\ req.calls[i].raised = "ValueError"
                   /\ id \in DOMAIN req.voice_prompts =>
                          req.calls[i].raised \in {"", "ModelError"}
        /\ req.clips = ClipsOfSucceeded(req.calls, req.voice_prompts)
        /\ req.clips # <<>> => req.stitch_arg.some

\* what does hold: the same without the report, which only the CLI makes
MissingSampleDropped ==
    PanelLooped =>
        /\ \A i \in 1..Len(req.script) :
               LET id == req.script[i].character_id
               IN  /\ SampleMissing(i) =>
                          /\ id \notin DOMAIN req.voice_prompts
                          /\ req.driver = "cli" => id \in req.reported_missing
                          /\ req.calls[i].raised = "ValueError"
                   /\ id \in DOMAIN req.voice_prompts =>
                          req.calls[i].raised \in {"", "ModelError"}
        /\ req.clips = ClipsOfSucceeded(req.calls, req.voice_prompts)
        /\ req.clips # <<>> => req.stitch_arg.some

\* a web request with a line of a character whose sample is missing and a
\* line that is stitched: nothing was reported
WebMissingUnreported ==
    /\ PanelLooped /\ req.driver = "web" /\ req.outcome = "ok"
    /\ \E i \in 1..Len(req.script) : SampleMissing(i) /\ req.calls[i].raised = "ValueError"
    /\ req.reported_missing = {}


\* ---------------------------------------------------------- web initialization
\* the characters of the Template Store whose sample file exists
WithSample == {c \in DOMAIN characters : characters[c].sample_file \in sample_files}

\* C16: in the web application, whenever a request (panel or single voice)
\* reaches synthesis, every character of the Template Store whose sample file
\* exists has a cached voice token, whatever the requests before it were.
C16_WebCacheComplete ==
    (req.driver = "web" /\ req.synth_reached) => WithSample \subseteq DOMAIN req.voice_prompts

\* a request synthesizing with a cloner that an earlier, failed initialization
\* left with some of the voices only
PartialCacheReused ==
    /\ req.driver = "web" /\ req.synth_reached
    /\ DOMAIN req.voice_prompts # {}
    /\ ~(WithSample \subseteq DOMAIN req.voice_prompts)


\* ---------------------------------------------------------- the token cache
Called == call.op # "none"

\* C17: the voice-token cache changes only on a load_voice that completes:
\* generate_speech and generate_batch, returning or raising, and a load_voice
\* whose token derivation raises leave it exactly as it was; and no call
\* removes an id, so the set of loaded ids only grows.
C17_CacheChangesOnlyOnLoad ==
    /\ Synthesis =>
           (DOMAIN CachedNow = DOMAIN call.before
            /\ \A v \in DOMAIN CachedNow : CachedNow[v] = call.before[v])
    /\ (call.op = "load_voice_sample" /\ call.raised # "") =>
           (DOMAIN CachedNow = DOMAIN call.before
            /\ \A v \in DOMAIN CachedNow : CachedNow[v] = call.before[v])
    /\ Called => DOMAIN call.before \subseteq DOMAIN CachedNow

\* a load_voice of a new id that raised while another id was cached
C17_Witness ==
    /\ call.op = "load_voice_sample" /\ call.raised = "ModelError"
    /\ DOMAIN call.before # {}
    /\ call.voice_id \notin DOMAIN call.before
    /\ DOMAIN CachedNow = DOMAIN call.before
\* a generate_batch that raised in the model with a voice cached
BatchFailedCacheKept ==
    /\ call.op = "generate_batch" /\ call.raised = "ModelError"
    /\ DOMAIN CachedNow = DOMAIN call.before /\ DOMAIN CachedNow # {}

====
